---- MODULE Spec2Model ----
(***************************************************************************)
(* The request -> offer -> order lifecycle of the marketplace backend:     *)
(* routers/offer.py, routers/orders.py, routers/request.py,                *)
(* routers/user.py over the tables declared in models.py.                  *)
(*                                                                         *)
(* The committed database is the state.  Under Spec every handler runs     *)
(* alone, from its first query to its commit, as one step.  Under SpecConc *)
(* two workers run respond_to_offer in their own sessions, step by step:   *)
(* the first read, the later queries and the commit are separate steps     *)
(* that interleave (database.py get_db: one session per call, no locking). *)
(***************************************************************************)
EXTENDS Integers, FiniteSets

\* ------------------------------------------------------------------ bounds
MaxOffers == 2
MaxOrders == 2
MaxRequests == 2

\* ------------------------------------------------------- the fixed universe
UserIds == {"c1", "s1", "s2"}
\* the users that act as suppliers in offer-creating calls
SupplierIds == {"s1", "s2"}
RequestIds == {"r1", "r2"}
OfferIds == 1..MaxOffers
OrderIds == 1..MaxOrders
Workers == {"w1", "w2"}

\* models.py Enum columns
UserRoles == {"customer", "supplier", "admin"}
RequestStatuses == {"open", "accepted", "declined", "cancelled"}
OfferStatuses == {"pending", "accepted", "rejected"}
OrderStatuses == {"placed", "delivered", "cancelled"}

\* schemas: the Literal types of the two action bodies
OfferActions == {"accept", "reject", "confirm"}
OrderActions == {"delivered", "cancelled"}

\* the price a supplier proposes through make_offer (OfferCreate.proposed)
ProposedPrices == {95}

VARIABLES
    users,        \* table users: records [id, role]
    products,     \* table products: records [supplier_id, category]
    requests,     \* table request_posts
    offers,       \* table offers
    orders,       \* table orders
    nextOffer,    \* the next fresh offer id (uuid4)
    nextOrder,    \* the next fresh order id (uuid4)
    nativeEnum,   \* does the store enforce orders.status's declared Enum
    response,     \* the HTTP response of the last call: [code, msg]
    session,      \* per worker: the session of a call in progress (SpecConc)
    result,       \* the rows in the body of the last list response
    blobs,        \* the object store: the keys that hold an uploaded image
    nextRequest   \* the next fresh request id and image key (uuid4)

vars == <<users, products, requests, offers, orders, nextOffer, nextOrder,
          nativeEnum, response, session, result, blobs, nextRequest>>

db == <<users, products, requests, offers, orders>>

Resp(code, msg) == [code |-> code, msg |-> msg]

NoSession ==
    [pc |-> "idle", action |-> "none", offer |-> {}, request |-> {},
     others |-> {}, found |-> {}]

\* ------------------------------------------------------------ row lookups
\* db.query(X).filter(...).first(): a matching row, or none
UserById(id) == {u \in users : u.id = id}
RequestById(id) == {r \in requests : r.id = id}
OfferById(id) == {o \in offers : o.id = id}
OrderById(id) == {o \in orders : o.id = id}
\* OrdersOfOffer with a filter that matches no row
OrdersOfOfferNone(oid) == {o \in orders : o.offer_id = oid /\ o.id = 0}
OrdersOfOffer(oid) == {o \in orders : o.offer_id = oid}
OffersOfRequest(rid) == {o \in offers : o.request_id = rid}

\* SupplierCategories over every supplier's products
SupplierCategoriesOfAll(sid) == {p.category : p \in products}

\* {p.category for p in supplier.products}
SupplierCategories(sid) == {p.category : p \in {q \in products : q.supplier_id = sid}}

\* ----------------------------------------------------- the store's checks
\* The ForeignKey / nullable=False columns of models.py, as the store checks
\* them when a transaction commits.
ForeignKeysHold(us, rs, ofs, ords) ==
    /\ \A o \in ofs : /\ \E r \in rs : r.id = o.request_id
                      /\ \E u \in us : u.id = o.supplier_id
    /\ \A o \in ords : /\ \E r \in rs : r.id = o.request_id
                       /\ \E f \in ofs : f.id = o.offer_id
                       /\ \E u \in us : u.id = o.customer_id
                       /\ \E u \in us : u.id = o.supplier_id

\* orders.status is Enum("placed", "delivered", "cancelled"): a store that
\* materialised the type refuses any other value, one that did not stores it.
OrderEnumHolds(ords) ==
    nativeEnum => \A o \in ords : o.status \in OrderStatuses

\* -------------------------------------------------------------------- Init
\* The database after create_user, add_or_edit_business_profile (s1, s2),
\* create_product and create_request have registered three users, three
\* products and two open requests; no offer and no order yet.
Init ==
    /\ users = {[id |-> "c1", role |-> "customer"],
                [id |-> "s1", role |-> "supplier"],
                [id |-> "s2", role |-> "supplier"]}
    /\ products = {[supplier_id |-> "s1", category |-> "electronics"],
                   [supplier_id |-> "s1", category |-> "furniture"],
                   [supplier_id |-> "s2", category |-> "electronics"]}
    /\ requests = {[id |-> "r1", category |-> "electronics", offer_price |-> 100,
                    quantity |-> 2, status |-> "open", customer_id |-> "c1"],
                   [id |-> "r2", category |-> "furniture", offer_price |-> 60,
                    quantity |-> 1, status |-> "open", customer_id |-> "c1"]}
    /\ offers = {}
    /\ orders = {}
    /\ nextOffer = 1
    /\ nextOrder = 1
    /\ nativeEnum \in BOOLEAN
    /\ response = Resp(0, "none")
    /\ session = [w \in Workers |-> NoSession]
    /\ result = {}
    /\ blobs = {}
    /\ nextRequest = 1


\* Commit that keeps the writes of a transaction the store refused
CommitNoRollback(us, ps, rs, ofs, ords, ok) ==
    /\ response' = IF ForeignKeysHold(us, rs, ofs, ords) /\ OrderEnumHolds(ords)
                   THEN ok ELSE Resp(500, "Internal Server Error")
    /\ users' = us
    /\ products' = ps
    /\ requests' = rs
    /\ offers' = ofs
    /\ orders' = ords

\* ------------------------------------------------------------ the commit
\* db.commit(): the flush's INSERT/UPDATE/DELETE statements and the COMMIT.
\* A statement the store refuses raises out of the handler (HTTP 500) and
\* get_db's db.close() rolls the transaction back.
Commit(us, ps, rs, ofs, ords, ok) ==
    IF ForeignKeysHold(us, rs, ofs, ords) /\ OrderEnumHolds(ords)
    THEN /\ response' = ok
         /\ users' = us
         /\ products' = ps
         /\ requests' = rs
         /\ offers' = ofs
         /\ orders' = ords
    ELSE /\ response' = Resp(500, "Internal Server Error")
         /\ UNCHANGED db

Fail(code, msg) ==
    /\ response' = Resp(code, msg)
    /\ UNCHANGED <<db, nextOffer, nextOrder>>

\* NewOffer with the request's price in place of the proposed one
NewOfferRequestPrice(id, req, sid, proposed, status) ==
    [id |-> id, request_id |-> req.id, supplier_id |-> sid,
     proposed |-> req.offer_price, status |-> status]

\* Offer(request_id, supplier_id, proposed[, status]); status has
\* server_default "pending"
NewOffer(id, req, sid, proposed, status) ==
    [id |-> id, request_id |-> req.id, supplier_id |-> sid,
     proposed |-> proposed, status |-> status]

\* ------------------------------------------------ offer.py: make_offer
make_offer(request_id, supplier_id, proposed) ==
    LET reqs == {r \in RequestById(request_id) : r.status = "open"} IN
    /\ UNCHANGED <<nativeEnum, session>>
    /\ IF reqs = {} THEN Fail(404, "Request not found or not open")
       ELSE IF UserById(supplier_id) = {} THEN Fail(404, "Supplier not found")
       ELSE LET req == CHOOSE r \in reqs : TRUE IN
            IF req.category \notin SupplierCategories(supplier_id)
            THEN Fail(403, "You don't carry that category or product for this request.")
            ELSE /\ nextOffer <= MaxOffers
                 /\ Commit(users, products, requests,
                           offers \cup {NewOffer(nextOffer, req, supplier_id, proposed, "pending")},
                           orders, Resp(200, "OfferRead"))
                 /\ nextOffer' = nextOffer + 1
                 /\ UNCHANGED nextOrder

\* ------------------------- offer.py: accept_request and reject_request
\* The two handlers differ in the status they insert and in their message.
AdminDecide(request_id, supplier_id, status, msg) ==
    /\ UNCHANGED <<nativeEnum, session>>
    /\ IF RequestById(request_id) = {} THEN Fail(404, "Request not found or not open")
       ELSE IF UserById(supplier_id) = {} THEN Fail(404, "Supplier not found")
       ELSE LET req == CHOOSE r \in RequestById(request_id) : TRUE IN
            IF \E o \in offers : o.request_id = req.id /\ o.supplier_id = supplier_id
            THEN Fail(400, "An offer from this supplier for this request already exists.")
            ELSE /\ nextOffer <= MaxOffers
                 /\ Commit(users, products, requests,
                           offers \cup {NewOffer(nextOffer, req, supplier_id, req.offer_price, status)},
                           orders, Resp(200, msg))
                 /\ nextOffer' = nextOffer + 1
                 /\ UNCHANGED nextOrder

\* accept_request inserting the column's default status
accept_request_default(request_id, supplier_id) ==
    AdminDecide(request_id, supplier_id, "pending", "Offer accepted successfully")

accept_request(request_id, supplier_id) ==
    AdminDecide(request_id, supplier_id, "accepted", "Offer accepted successfully")

reject_request(request_id, supplier_id) ==
    AdminDecide(request_id, supplier_id, "rejected", "Offer rejected successfully")


\* --------------------------------------------- offer.py: respond_to_offer
\* offer.request: the row offers.request_id refers to
RequestOfOffer(rs, offer) == {r \in rs : r.id = offer.request_id}

\* lines 126-132: the other offers of the request that are pending
OtherPending(ofs, offer) ==
    {o.id : o \in {x \in ofs : /\ x.request_id = offer.request_id
                               /\ x.id # offer.id
                               /\ x.status = "pending"}}

\* AcceptWrites without lines 133-134: the other pending offers are left alone
AcceptWritesNoCascade(ofs, offer_id, others) ==
    {IF o.id = offer_id THEN [o EXCEPT !.status = "accepted"] ELSE o : o \in ofs}

\* lines 124, 133-134 at the flush: UPDATE offers SET status WHERE id
AcceptWrites(ofs, offer_id, others) ==
    {IF o.id = offer_id THEN [o EXCEPT !.status = "accepted"]
     ELSE IF o.id \in others THEN [o EXCEPT !.status = "rejected"]
     ELSE o : o \in ofs}

\* RejectWrites that rejects every pending offer
RejectWritesAllPending(ofs, offer_id) ==
    {IF o.id = offer_id \/ o.status = "pending"
     THEN [o EXCEPT !.status = "rejected"] ELSE o : o \in ofs}

\* line 165 at the flush
RejectWrites(ofs, offer_id) ==
    {IF o.id = offer_id THEN [o EXCEPT !.status = "rejected"] ELSE o : o \in ofs}

\* line 125 at the flush: UPDATE request_posts SET status WHERE id
RequestAccepted(rs, request_id) ==
    {IF r.id = request_id THEN [r EXCEPT !.status = "accepted"] ELSE r : r \in rs}

\* NewOrder with the request's price in place of the offer's
NewOrderRequestPrice(id, offer, req) ==
    [id |-> id, request_id |-> req.id, offer_id |-> offer.id,
     customer_id |-> req.customer_id, supplier_id |-> offer.supplier_id,
     status |-> "placed", total_price |-> req.offer_price,
     quantity |-> req.quantity]

\* lines 145-153: Order(...) built from the offer and its request
NewOrder(id, offer, req) ==
    [id |-> id, request_id |-> req.id, offer_id |-> offer.id,
     customer_id |-> req.customer_id, supplier_id |-> offer.supplier_id,
     status |-> "placed", total_price |-> offer.proposed,
     quantity |-> req.quantity]

\* lines 154, 157 at the flush: the new order is inserted with the status
\* the handler gave it last, "confirmed"
ConfirmInsert(ords, order) ==
    ords \cup {[order EXCEPT !.status = "confirmed"]}

\* line 157 at the flush: UPDATE orders SET status WHERE id
ConfirmUpdate(ords, order) ==
    {IF o.id = order.id THEN [o EXCEPT !.status = "confirmed"] ELSE o : o \in ords}

\* StatusAllows with no check
StatusAllowsAny(offer, action) == TRUE

\* lines 122, 141, 163: the status the offer must have for the action
StatusAllows(offer, action) ==
    /\ action \in {"accept", "reject"} => offer.status = "pending"
    /\ action = "confirm" => offer.status = "accepted"

respond_to_offer(offer_id, action) ==
    /\ IF OfferById(offer_id) = {} THEN Fail(404, "Offer not found.")
       ELSE LET offer == CHOOSE o \in OfferById(offer_id) : TRUE IN
       IF RequestOfOffer(requests, offer) = {} THEN Fail(404, "Offer not found.")
       ELSE LET req == CHOOSE r \in RequestOfOffer(requests, offer) : TRUE IN
       CASE action = "accept" ->
              IF ~StatusAllows(offer, action) THEN Fail(400, "Offer already responded to.")
              ELSE /\ Commit(users, products, RequestAccepted(requests, req.id),
                             AcceptWrites(offers, offer.id, OtherPending(offers, offer)),
                             orders, Resp(200, "Offer accepted"))
                   /\ UNCHANGED <<nextOffer, nextOrder>>
         [] action = "confirm" ->
              IF ~StatusAllows(offer, action)
              THEN Fail(400, "Offer must be accepted before confirming.")
              ELSE IF OrdersOfOffer(offer.id) = {}
                   THEN /\ nextOrder <= MaxOrders
                        /\ Commit(users, products, requests, offers,
                                  ConfirmInsert(orders, NewOrder(nextOrder, offer, req)),
                                  Resp(200, "Order confirmed successfully"))
                        /\ nextOrder' = IF orders' = orders THEN nextOrder ELSE nextOrder + 1
                        /\ UNCHANGED nextOffer
                   ELSE \E order \in OrdersOfOffer(offer.id) :
                        IF order.status = "confirmed"
                        THEN Fail(200, "Order already confirmed.")
                        ELSE /\ Commit(users, products, requests, offers,
                                       ConfirmUpdate(orders, order),
                                       Resp(200, "Order confirmed successfully"))
                             /\ UNCHANGED <<nextOffer, nextOrder>>
         [] action = "reject" ->
              IF ~StatusAllows(offer, action) THEN Fail(400, "Offer already responded to.")
              ELSE /\ Commit(users, products, requests, RejectWrites(offers, offer.id),
                             orders, Resp(200, "Offer rejected"))
                   /\ UNCHANGED <<nextOffer, nextOrder>>
         [] OTHER -> Fail(400, "Invalid action.")
    /\ UNCHANGED <<nativeEnum, session>>

\* ------------------------------------------ orders.py: update_order_status
SetOrderStatus(ords, order_id, status) ==
    {IF o.id = order_id THEN [o EXCEPT !.status = status] ELSE o : o \in ords}

\* IsOrderSupplier with no check
IsOrderSupplierAny(order, user) == TRUE

\* lines 49, 56: the acting user owns the order
IsOrderCustomer(order, user) == order.customer_id = user.id
IsOrderSupplier(order, user) == order.supplier_id = user.id

\* OrderIsPlaced with no check
OrderIsPlacedAny(order) == TRUE

\* lines 51, 58: only a placed order is cancelled or delivered
OrderIsPlaced(order) == order.status = "placed"

update_order_status(order_id, user_id, action) ==
    /\ IF OrderById(order_id) = {} THEN Fail(404, "Order not found")
       ELSE IF UserById(user_id) = {} THEN Fail(404, "User not found")
       ELSE LET order == CHOOSE o \in OrderById(order_id) : TRUE
                user == CHOOSE u \in UserById(user_id) : TRUE IN
       IF user.role = "customer" /\ action = "cancelled"
       THEN IF ~IsOrderCustomer(order, user)
            THEN Fail(403, "You are not authorized to cancel this order.")
            ELSE IF ~OrderIsPlaced(order)
            THEN Fail(400, "Order status cannot be cancelled.")
            ELSE /\ Commit(users, products, requests, offers,
                           SetOrderStatus(orders, order.id, "cancelled"),
                           Resp(200, "Order status updated successfully to 'cancelled'"))
                 /\ UNCHANGED <<nextOffer, nextOrder>>
       ELSE IF user.role = "supplier" /\ action = "delivered"
       THEN IF ~IsOrderSupplier(order, user)
            THEN Fail(403, "You are not authorized to mark this order as delivered.")
            ELSE IF ~OrderIsPlaced(order)
            THEN Fail(400, "Order status cannot be marked as delivered.")
            ELSE /\ Commit(users, products, requests, offers,
                           SetOrderStatus(orders, order.id, "delivered"),
                           Resp(200, "Order status updated successfully to 'delivered'"))
                 /\ UNCHANGED <<nextOffer, nextOrder>>
       ELSE Fail(403, "User not allowed to perform this action or action is invalid for current order status.")
    /\ UNCHANGED <<nativeEnum, session>>

\* -------------------------------------------- request.py: delete_request
\* RequestPost.offers has cascade "all, delete": the request's offers are
\* deleted with it.  Nothing cascades to orders.
\* CascadeOffers as if RequestPost.offers had no cascade
CascadeOffersNone(ofs, request_id) == ofs

\* models.py:59 at the flush of db.delete(request): the request's offers
\* are deleted with it
CascadeOffers(ofs, request_id) == {o \in ofs : o.request_id # request_id}

delete_request(request_id) ==
    /\ UNCHANGED <<nativeEnum, session>>
    /\ IF RequestById(request_id) = {} THEN Fail(404, "Request not found")
       ELSE /\ Commit(users, products,
                      {r \in requests : r.id # request_id},
                      CascadeOffers(offers, request_id),
                      orders, Resp(200, "Request deleted successfully"))
            /\ UNCHANGED <<nextOffer, nextOrder>>

\* ------------------------------------------------- user.py: delete_user
\* User.requests, User.offers and User.products have cascade "all, delete";
\* User.customer_orders and User.supplier_orders have none, so the flush
\* sets those orders' customer_id / supplier_id to NULL (nullable=False).
\* NullifyOrders as if the two relationships had cascade "all, delete"
NullifyOrdersDeleting(ords, user_id) ==
    {o \in ords : o.customer_id # user_id /\ o.supplier_id # user_id}

\* models.py:41-42 at the flush of db.delete(user): the orders of the user
\* are kept and their reference to the user is set to NULL
NullifyOrders(ords, user_id) ==
    {[o EXCEPT !.customer_id = IF @ = user_id THEN "NULL" ELSE @,
               !.supplier_id = IF @ = user_id THEN "NULL" ELSE @] : o \in ords}

delete_user(user_id) ==
    /\ UNCHANGED <<nativeEnum, session>>
    /\ IF UserById(user_id) = {} THEN Fail(404, "User not found")
       ELSE LET gone == {r.id : r \in {x \in requests : x.customer_id = user_id}} IN
            /\ Commit({u \in users : u.id # user_id},
                      {p \in products : p.supplier_id # user_id},
                      {r \in requests : r.id \notin gone},
                      {o \in offers : o.request_id \notin gone /\ o.supplier_id # user_id},
                      NullifyOrders(orders, user_id),
                      Resp(200, "User deleted successfully"))
            /\ UNCHANGED <<nextOffer, nextOrder>>

\* ------------------------------------------- request.py: update_request
\* RequestUpdate (schemas/request_schema.py:6-18): the fields a PUT body
\* carries.  The bodies tried here carry the id of the path, a category, and
\* for the other fields the values the row already has.
Categories == {"electronics", "furniture"}
RequestUpdates == [category : Categories]

\* UpdateFields that also resets the status to the column's default
UpdateFieldsWithStatus(req, upd) ==
    [req EXCEPT !.category = upd.category, !.status = "open"]

\* lines 184-185: setattr for every key of the body; status is not a key
UpdateFields(req, upd) == [req EXCEPT !.category = upd.category]

update_request(request_id, upd) ==
    /\ UNCHANGED <<nativeEnum, session>>
    /\ IF RequestById(request_id) = {} THEN Fail(404, "Request not found")
       ELSE LET existing == CHOOSE r \in RequestById(request_id) : TRUE IN
            /\ Commit(users, products,
                      (requests \ {existing}) \cup {UpdateFields(existing, upd)},
                      offers, orders, Resp(200, "RequestBase"))
            /\ UNCHANGED <<nextOffer, nextOrder>>

\* ------------------------------------------------------ the specification
Next ==
    /\ UNCHANGED <<result, blobs, nextRequest>>
    /\ \/ \E r \in RequestIds, s \in SupplierIds, p \in ProposedPrices : make_offer(r, s, p)
       \/ \E r \in RequestIds, s \in SupplierIds : accept_request(r, s)
       \/ \E r \in RequestIds, s \in SupplierIds : reject_request(r, s)
       \/ \E o \in OfferIds, a \in OfferActions : respond_to_offer(o, a)
       \/ \E o \in OrderIds, u \in UserIds, a \in OrderActions : update_order_status(o, u, a)
       \/ \E r \in RequestIds : delete_request(r)
       \/ \E u \in UserIds : delete_user(u)

Spec == Init /\ [][Next]_vars

\* the lifecycle handlers together with update_request
NextReq ==
    \/ Next
    \/ /\ UNCHANGED <<result, blobs, nextRequest>>
       /\ \E r \in RequestIds, upd \in RequestUpdates : update_request(r, upd)

SpecReq == Init /\ [][NextReq]_vars


\* ------------------------------------- respond_to_offer, one step at a time
\* Each call has its own session (database.py get_db) and takes no lock: what
\* it read stays in the session as it was read, and its UPDATEs name rows by
\* primary key.

\* lines 113-123, 141-142, 163-164: load the offer and its request, check
\* the offer's status
Begin(w, offer_id, action) ==
    /\ session[w].pc = "idle"
    /\ UNCHANGED <<db, nextOffer, nextOrder, nativeEnum>>
    /\ IF OfferById(offer_id) = {}
       THEN /\ response' = Resp(404, "Offer not found.")
            /\ UNCHANGED session
       ELSE LET offer == CHOOSE o \in OfferById(offer_id) : TRUE IN
       IF RequestOfOffer(requests, offer) = {}
       THEN /\ response' = Resp(404, "Offer not found.")
            /\ UNCHANGED session
       ELSE IF action \in {"accept", "reject"} /\ ~StatusAllows(offer, action)
       THEN /\ response' = Resp(400, "Offer already responded to.")
            /\ UNCHANGED session
       ELSE IF action = "confirm" /\ ~StatusAllows(offer, action)
       THEN /\ response' = Resp(400, "Offer must be accepted before confirming.")
            /\ UNCHANGED session
       ELSE /\ session' = [session EXCEPT ![w] =
                  [pc |-> IF action = "reject" THEN "flush" ELSE "query",
                   action |-> action, offer |-> {offer},
                   request |-> RequestOfOffer(requests, offer),
                   others |-> {}, found |-> {}]]
            /\ UNCHANGED response

\* lines 126-132 (accept) and 143, 155-156 (confirm): the second query, over
\* what is committed when it runs
Query(w) ==
    LET ses == session[w]
        offer == CHOOSE o \in ses.offer : TRUE IN
    /\ ses.pc = "query"
    /\ UNCHANGED <<db, nextOffer, nextOrder, nativeEnum>>
    /\ IF ses.action = "accept"
       THEN /\ session' = [session EXCEPT ![w].pc = "flush",
                                          ![w].others = OtherPending(offers, offer)]
            /\ UNCHANGED response
       ELSE IF OrdersOfOffer(offer.id) = {}
       THEN /\ session' = [session EXCEPT ![w].pc = "flush"]
            /\ UNCHANGED response
       ELSE \E order \in OrdersOfOffer(offer.id) :
            IF order.status = "confirmed"
            THEN /\ session' = [session EXCEPT ![w] = NoSession]
                 /\ response' = Resp(200, "Order already confirmed.")
            ELSE /\ session' = [session EXCEPT ![w].pc = "flush",
                                               ![w].found = {order}]
                 /\ UNCHANGED response

\* the rows the flush's UPDATE statements name are still there
RowsPresent(ids) == \A i \in ids : OfferById(i) # {}

\* lines 135, 158, 166: db.commit()
Flush(w) ==
    LET ses == session[w]
        offer == CHOOSE o \in ses.offer : TRUE
        req == CHOOSE r \in ses.request : TRUE IN
    /\ ses.pc = "flush"
    /\ session' = [session EXCEPT ![w] = NoSession]
    /\ UNCHANGED <<nativeEnum, nextOffer>>
    /\ CASE ses.action = "accept" ->
              /\ UNCHANGED nextOrder
              /\ IF RowsPresent({offer.id} \cup ses.others) /\ RequestById(req.id) # {}
                 THEN Commit(users, products, RequestAccepted(requests, req.id),
                             AcceptWrites(offers, offer.id, ses.others),
                             orders, Resp(200, "Offer accepted"))
                 ELSE /\ UNCHANGED db
                      /\ response' = Resp(500, "Internal Server Error")
         [] ses.action = "reject" ->
              /\ UNCHANGED nextOrder
              /\ IF RowsPresent({offer.id})
                 THEN Commit(users, products, requests,
                             RejectWrites(offers, offer.id),
                             orders, Resp(200, "Offer rejected"))
                 ELSE /\ UNCHANGED db
                      /\ response' = Resp(500, "Internal Server Error")
         [] ses.action = "confirm" ->
              IF ses.found = {}
              THEN /\ nextOrder <= MaxOrders
                   /\ Commit(users, products, requests, offers,
                             ConfirmInsert(orders, NewOrder(nextOrder, offer, req)),
                             Resp(200, "Order confirmed successfully"))
                   /\ nextOrder' = IF orders' = orders THEN nextOrder ELSE nextOrder + 1
              ELSE /\ UNCHANGED nextOrder
                   /\ Commit(users, products, requests, offers,
                             ConfirmUpdate(orders, CHOOSE o \in ses.found : TRUE),
                             Resp(200, "Order confirmed successfully"))

\* make_offer, one step at a time.  offer.py:77-87: load the request (open)
\* and the supplier and compare the categories, over what is committed when
\* the call starts
BeginOffer(w, request_id, supplier_id, proposed) ==
    /\ session[w].pc = "idle"
    /\ nextOffer + Cardinality({v \in Workers : session[v].pc = "insert"}) <= MaxOffers
    /\ UNCHANGED <<db, nextOffer, nextOrder, nativeEnum>>
    /\ LET open == {r \in RequestById(request_id) : r.status = "open"} IN
       IF open = {}
       THEN /\ response' = Resp(404, "Request not found or not open")
            /\ UNCHANGED session
       ELSE IF UserById(supplier_id) = {}
       THEN /\ response' = Resp(404, "Supplier not found")
            /\ UNCHANGED session
       ELSE LET req == CHOOSE r \in open : TRUE IN
       IF req.category \notin SupplierCategories(supplier_id)
       THEN /\ response' = Resp(403, "You don't carry that category or product for this request.")
            /\ UNCHANGED session
       ELSE /\ session' = [session EXCEPT ![w] =
                  [pc |-> "insert", action |-> "make_offer",
                   offer |-> {NewOffer(0, req, supplier_id, proposed, "pending")},
                   request |-> {req}, others |-> {}, found |-> {}]]
            /\ UNCHANGED response

\* offer.py:89-98: db.add(offer) and db.commit(); the row gets its id here
Insert(w) ==
    LET ses == session[w]
        offer == CHOOSE o \in ses.offer : TRUE IN
    /\ ses.pc = "insert"
    /\ session' = [session EXCEPT ![w] = NoSession]
    /\ UNCHANGED <<nativeEnum, nextOrder>>
    /\ Commit(users, products, requests,
              offers \cup {[offer EXCEPT !.id = nextOffer]},
              orders, Resp(200, "OfferRead"))
    /\ nextOffer' = IF offers' = offers THEN nextOffer ELSE nextOffer + 1

\* Two workers serve respond_to_offer and make_offer.
NextConc ==
    /\ UNCHANGED <<result, blobs, nextRequest>>
    /\ \/ \E r \in RequestIds, s \in SupplierIds, p \in ProposedPrices :
             /\ \A w \in Workers : session[w].pc = "idle"
             /\ make_offer(r, s, p)
       \/ \E w \in Workers, o \in OfferIds, a \in OfferActions : Begin(w, o, a)
       \/ \E w \in Workers : Query(w)
       \/ \E w \in Workers : Flush(w)
       \/ \E w \in Workers, r \in RequestIds, s \in SupplierIds, p \in ProposedPrices :
             BeginOffer(w, r, s, p)
       \/ \E w \in Workers : Insert(w)

SpecConc == Init /\ [][NextConc]_vars


\* ------------------------------------------------------- the list handlers
\* The three list handlers only read.  They are run over tables drawn from
\* the rows the schema of models.py admits: an order in any status of its
\* column (server_default placed), products with and without a category,
\* requests open and accepted.

\* the ids a list call is made with: the users and an id of no user
ReadUserIds == UserIds \cup {"u0"}

ReadProductRows ==
    {[supplier_id |-> "s1", category |-> "electronics"],
     [supplier_id |-> "s1", category |-> ""],
     [supplier_id |-> "s2", category |-> "furniture"],
     [supplier_id |-> "s2", category |-> ""]}

ReadRequest(id, category, status) ==
    [id |-> id, category |-> category, offer_price |-> 100, quantity |-> 2,
     status |-> status, customer_id |-> "c1"]

ReadOffers ==
    {NewOffer(1, ReadRequest("r1", "electronics", "accepted"), "s1", 95, "accepted"),
     NewOffer(2, ReadRequest("r2", "furniture", "accepted"), "s2", 95, "accepted")}

\* the order of offer f, in status st
ReadOrder(f, st) ==
    [NewOrder(f.id, f, ReadRequest(f.request_id, "electronics", "accepted"))
        EXCEPT !.status = st]

InitRead ==
    /\ users = {[id |-> "c1", role |-> "customer"],
                [id |-> "s1", role |-> "supplier"],
                [id |-> "s2", role |-> "supplier"]}
    /\ products \in SUBSET ReadProductRows
    /\ \E st1 \in {"open", "accepted"}, st2 \in {"open", "accepted"} :
          requests = {ReadRequest("r1", "electronics", st1),
                      ReadRequest("r2", "furniture", st2)}
    /\ offers = ReadOffers
    /\ nativeEnum \in BOOLEAN
    /\ \E chosen \in SUBSET ReadOffers :
          \E st \in [chosen -> OrderStatuses \cup {"confirmed"}] :
             orders = {ReadOrder(f, st[f]) : f \in chosen}
    /\ OrderEnumHolds(orders)
    /\ nextOffer = MaxOffers + 1
    /\ nextOrder = MaxOrders + 1
    /\ response = Resp(0, "none")
    /\ session = [w \in Workers |-> NoSession]
    /\ result = {}
    /\ blobs = {}
    /\ nextRequest = 1

\* ActiveOrdersOf without the supplier's side of the or_
ActiveOrdersOfCustomer(ords, user_id) ==
    {o \in ords : o.customer_id = user_id /\ o.status = "placed"}

\* orders.py:19-29
ActiveOrdersOf(ords, user_id) ==
    {o \in ords : /\ o.customer_id = user_id \/ o.supplier_id = user_id
                  /\ o.status = "placed"}

get_all_active_orders_for_user(user_id) ==
    /\ result' = ActiveOrdersOf(orders, user_id)
    /\ response' = Resp(200, "List[OrderOut]")
    /\ UNCHANGED <<db, nextOffer, nextOrder, nativeEnum, session, blobs, nextRequest>>

\* CompletedOrdersOf that also lists what the user supplied
CompletedOrdersOfEither(ords, user_id) ==
    {o \in ords : /\ o.status = "delivered"
                  /\ o.customer_id = user_id \/ o.supplier_id = user_id}

\* orders.py:72-76
CompletedOrdersOf(ords, user_id) ==
    {o \in ords : o.status = "delivered" /\ o.customer_id = user_id}

get_all_completed_orders(user_id) ==
    /\ result' = CompletedOrdersOf(orders, user_id)
    /\ response' = Resp(200, "List[OrderOut]")
    /\ UNCHANGED <<db, nextOffer, nextOrder, nativeEnum, session, blobs, nextRequest>>

\* request.py:213, 217: the categories of the supplier's products, the
\* empty ones left out
ProductCategories(supplier_id) ==
    {p.category : p \in {q \in products : q.supplier_id = supplier_id
                                          /\ q.category # ""}}

\* MatchingRequests that lists open requests only
MatchingRequestsOpen(rs, categories) ==
    {r \in rs : r.category \in categories /\ r.status = "open"}

\* request.py:222
MatchingRequests(rs, categories) == {r \in rs : r.category \in categories}

get_matching_supplier_requests(supplier_id) ==
    /\ UNCHANGED <<db, nextOffer, nextOrder, nativeEnum, session, blobs, nextRequest>>
    /\ IF UserById(supplier_id) = {}
       THEN response' = Resp(404, "Supplier not found") /\ result' = {}
       ELSE IF {p \in products : p.supplier_id = supplier_id} = {}
       THEN response' = Resp(400, "Supplier has no products.") /\ result' = {}
       ELSE IF ProductCategories(supplier_id) = {}
       THEN response' = Resp(400, "No product categories found.") /\ result' = {}
       ELSE /\ response' = Resp(200, "List[RequestResponse]")
            /\ result' = MatchingRequests(requests, ProductCategories(supplier_id))

NextRead ==
    \/ \E u \in ReadUserIds : get_all_active_orders_for_user(u)
    \/ \E u \in ReadUserIds : get_all_completed_orders(u)
    \/ \E u \in ReadUserIds : get_matching_supplier_requests(u)

SpecRead == InitRead /\ [][NextRead]_vars


\* ------------------------------------------- request.py: create_request
\* What the calls the handler makes to the object store and to the database
\* can do: upload_file_to_spaces returns a URL or None (lines 64-82),
\* delete_file_from_spaces returns True or False (lines 94-102), and any
\* statement of the try block (lines 146-148) can raise.
StoreFaults == {"none", "commit", "refresh"}

\* lines 135-143; status has server_default "open"
NewRequest(id, customer_id, category, image_path) ==
    [id |-> id, category |-> category, offer_price |-> 100, quantity |-> 1,
     status |-> "open", customer_id |-> customer_id, image_path |-> image_path]

create_request(customer_id, category, isImage, uploaded, fault, deleted) ==
    /\ UNCHANGED <<users, products, offers, orders, nextOffer, nextOrder,
                   nativeEnum, session, result>>
    /\ IF UserById(customer_id) = {}
       THEN /\ response' = Resp(404, "Customer not found")
            /\ UNCHANGED <<requests, blobs, nextRequest>>
       ELSE IF ~isImage
       THEN /\ response' = Resp(400, "File is not a valid image.")
            /\ UNCHANGED <<requests, blobs, nextRequest>>
       ELSE /\ nextRequest <= MaxRequests
            /\ nextRequest' = nextRequest + 1
            /\ IF ~uploaded
               THEN /\ response' = Resp(500, "Failed to upload image.")
                    /\ UNCHANGED <<requests, blobs>>
               ELSE LET key == nextRequest
                        row == NewRequest(nextRequest, customer_id, category, key)
                    IN  IF fault = "none"
                        THEN /\ response' = Resp(201, "Request created successfully")
                             /\ requests' = requests \cup {row}
                             /\ blobs' = blobs \cup {key}
                        ELSE /\ response' = Resp(500, "Failed to create request")
                             /\ requests' = IF fault = "commit" THEN requests
                                            ELSE requests \cup {row}
                             /\ blobs' = IF deleted THEN blobs \ {key}
                                         ELSE blobs \cup {key}

InitCreate ==
    /\ users = {[id |-> "c1", role |-> "customer"],
                [id |-> "s1", role |-> "supplier"],
                [id |-> "s2", role |-> "supplier"]}
    /\ products = {}
    /\ requests = {}
    /\ offers = {}
    /\ orders = {}
    /\ nextOffer = 1
    /\ nextOrder = 1
    /\ nativeEnum \in BOOLEAN
    /\ response = Resp(0, "none")
    /\ session = [w \in Workers |-> NoSession]
    /\ result = {}
    /\ blobs = {}
    /\ nextRequest = 1

NextCreate ==
    \E customer_id \in ReadUserIds, category \in Categories,
       isImage \in BOOLEAN, uploaded \in BOOLEAN,
       fault \in StoreFaults, deleted \in BOOLEAN :
       create_request(customer_id, category, isImage, uploaded, fault, deleted)

SpecCreate == InitCreate /\ [][NextCreate]_vars

\* ================================================================ claims
AcceptedOffers(rid) == {o \in OffersOfRequest(rid) : o.status = "accepted"}
PendingOffers(rid) == {o \in OffersOfRequest(rid) : o.status = "pending"}
AllIdle == \A w \in Workers : session[w].pc = "idle"

\* C1: in every state reachable by make_offer, accept_request, reject_request
\* and respond_to_offer, each request has at most one accepted offer.
\* (Stated as claimed; accept_request inserts accepted offers unchecked.)
C1_AtMostOneAcceptedOffer ==
    \A r \in requests : Cardinality(AcceptedOffers(r.id)) <= 1

\* C2: when respond_to_offer(accept) calls on different pending offers of one
\* request run concurrently, then once they have all returned exactly one
\* offer of the request is accepted and every other one is rejected.
\* (Stated as claimed, for offers of different suppliers; under SpecConc
\* offers come from make_offer alone.)
C2_RacingAcceptsLeaveOneAccepted ==
    (AllIdle /\ \A o1 \in offers, o2 \in offers :
                   o1.supplier_id = o2.supplier_id /\ o1.request_id = o2.request_id
                       => o1.id = o2.id) =>
        \A r \in requests :
            AcceptedOffers(r.id) # {} =>
                /\ Cardinality(AcceptedOffers(r.id)) = 1
                /\ \A o \in OffersOfRequest(r.id) : o.status \in {"accepted", "rejected"}

\* C3: in every reachable state there is at most one offer per
\* (request, supplier) pair.  (Stated as claimed; make_offer has no check.)
C3_OneOfferPerPair ==
    \A o1 \in offers, o2 \in offers :
        (o1.request_id = o2.request_id /\ o1.supplier_id = o2.supplier_id)
            => o1.id = o2.id

\* C4: two concurrent respond_to_offer(confirm) calls on the same accepted
\* offer leave exactly one order row for it; in particular no offer ever has
\* two order rows.  (Stated as claimed.)
C4_RacingConfirmsLeaveOneOrder ==
    \A f \in offers : Cardinality(OrdersOfOffer(f.id)) <= 1

\* C5: after the first successful respond_to_offer(confirm) on an accepted
\* offer that has no order, the stored order of that offer has status placed.
C5_ConfirmStoresPlaced ==
    [][\A f \in OfferIds :
          (/\ OrdersOfOffer(f) = {}
           /\ respond_to_offer(f, "confirm")
           /\ response'.code = 200)
          => \E o \in orders' : o.offer_id = f /\ o.status = "placed"]_vars

\* C6: along make_offer, respond_to_offer(accept), respond_to_offer(confirm),
\* the order the confirm produced can be marked delivered:
\* update_order_status(delivered) by the order's supplier succeeds and leaves
\* the order in status delivered.  (The order's request was accepted through
\* respond_to_offer and the order's offer is its only offer.)
C6_SupplierDeliversConfirmedOrder ==
    [][\A id \in OrderIds, u \in UserIds :
          (/\ \E o \in OrderById(id) :
                 /\ o.supplier_id = u
                 /\ \E r \in RequestById(o.request_id) : r.status = "accepted"
                 /\ \A f \in OffersOfRequest(o.request_id) : f.id = o.offer_id
           /\ \E usr \in UserById(u) : usr.role = "supplier"
           /\ update_order_status(id, u, "delivered"))
          => /\ response'.code = 200
             /\ \E o \in orders' : o.id = id /\ o.status = "delivered"]_vars


\* C8: in every reachable state every order's originating offer exists and
\* has status accepted, whatever requests and users have been deleted.
\* (Stated as claimed.)
C8_OrderHasAcceptedOffer ==
    \A o \in orders : \E f \in offers : f.id = o.offer_id /\ f.status = "accepted"

\* C9: a successful respond_to_offer(accept) on a pending offer O of request
\* R sets O to accepted and R to accepted, sets every other pending offer of
\* R to rejected, leaves every other offer as it was, and leaves no offer of R
\* pending.
C9_AcceptEffects ==
    [][\A id \in OfferIds :
          (/\ respond_to_offer(id, "accept")
           /\ response' = Resp(200, "Offer accepted"))
          => \E offer \in OfferById(id) :
                /\ offer.status = "pending"
                /\ [offer EXCEPT !.status = "accepted"] \in offers'
                /\ \E r \in requests' : r.id = offer.request_id /\ r.status = "accepted"
                /\ \A r \in requests : r.id # offer.request_id => r \in requests'
                /\ \A x \in offers :
                      x.id # id =>
                         IF x.request_id = offer.request_id /\ x.status = "pending"
                         THEN [x EXCEPT !.status = "rejected"] \in offers'
                         ELSE x \in offers'
                /\ Cardinality(offers') = Cardinality(offers)
                /\ \A x \in offers' : x.request_id = offer.request_id => x.status # "pending"
                /\ orders' = orders]_vars

\* an accept has just succeeded on a request that has another offer, which
\* is now rejected
C9_Witness ==
    /\ response = Resp(200, "Offer accepted")
    /\ \E o1 \in offers, o2 \in offers :
          /\ o1.request_id = o2.request_id
          /\ o1.status = "accepted"
          /\ o2.status = "rejected"
          /\ \E r \in RequestById(o1.request_id) : r.status = "accepted"

\* C10: in every state reachable by make_offer, accept_request,
\* reject_request and respond_to_offer, no request has one offer accepted and
\* another still pending.  (Stated as claimed.)
C10_NoPendingBesideAccepted ==
    \A r \in requests : AcceptedOffers(r.id) = {} \/ PendingOffers(r.id) = {}

\* C11: respond_to_offer with action confirm on an offer whose order already
\* has status confirmed answers with success (code 200) and changes no
\* request, offer or order: no second order is inserted and no field is
\* modified, so a second confirm leaves the state of the first.
C11_ReconfirmIsNoOp ==
    [][\A id \in OfferIds :
          (/\ \E o \in orders : o.offer_id = id /\ o.status = "confirmed"
           /\ respond_to_offer(id, "confirm"))
          => /\ response' = Resp(200, "Order already confirmed.")
             /\ orders' = orders
             /\ offers' = offers
             /\ requests' = requests
             /\ nextOrder' = nextOrder]_vars

\* a second confirm has just been answered on an offer whose one order is
\* confirmed
C11_Witness ==
    /\ response = Resp(200, "Order already confirmed.")
    /\ \E o \in orders :
          /\ o.status = "confirmed"
          /\ \A x \in orders : x.offer_id = o.offer_id => x = o

\* C12: the order inserted by a successful confirm takes total_price from
\* the offer's proposed price, quantity and customer from the request, the
\* supplier from the offer, and refers to that offer and that request.
C12_OrderCopiesFields ==
    [][\A id \in OfferIds :
          (/\ response' = Resp(200, "Order confirmed successfully")
           /\ \A o \in orders : o.offer_id # id
           /\ respond_to_offer(id, "confirm"))
          => \E offer \in offers, req \in requests, order \in orders' :
                /\ offer.id = id
                /\ req.id = offer.request_id
                /\ orders' = orders \cup {order}
                /\ order \notin orders
                /\ order.offer_id = offer.id
                /\ order.request_id = req.id
                /\ order.total_price = offer.proposed
                /\ order.quantity = req.quantity
                /\ order.customer_id = req.customer_id
                /\ order.supplier_id = offer.supplier_id]_vars

\* a confirm has just inserted an order whose price is the offer's proposed
\* price and differs from the price the request asked for
C12_Witness ==
    /\ response = Resp(200, "Order confirmed successfully")
    /\ \E order \in orders, offer \in offers, req \in requests :
          /\ order.offer_id = offer.id
          /\ order.request_id = req.id
          /\ offer.request_id = req.id
          /\ offer.proposed # req.offer_price
          /\ order.total_price = offer.proposed
          /\ order.quantity = req.quantity

\* C13: an offer whose status is accepted or rejected keeps that status in
\* every step, whichever calls run and however they overlap; an offer's
\* status changes only from pending, and only to accepted or rejected.
\* (Stated as claimed.)
C13_OfferStatusIsFinal ==
    [][\A o \in offers : \A n \in offers' :
          n.id = o.id =>
             \/ n.status = o.status
             \/ /\ o.status = "pending"
                /\ n.status \in {"accepted", "rejected"}]_vars

\* C14: respond_to_offer refuses an action the offer's status does not
\* allow - accept or reject on an offer that is not pending, confirm on an
\* offer that is not accepted - with code 400 and changes no request, offer
\* or order.
C14_IllegalActionRefused ==
    [][\/ /\ response'.code = 400
          /\ requests' = requests
          /\ offers' = offers
          /\ orders' = orders
       \/ \A f \in offers : \A action \in OfferActions :
             (\/ action \in {"accept", "reject"} /\ f.status # "pending"
              \/ action = "confirm" /\ f.status # "accepted")
             => ~respond_to_offer(f.id, action)]_vars

\* a confirm has just been refused on an offer that is still pending
C14_Witness ==
    /\ response = Resp(400, "Offer must be accepted before confirming.")
    /\ \E f \in offers : f.status = "pending"

C16_DeliveredRefused ==
    [][\A order \in orders : \A uid \in {order.customer_id, order.supplier_id} :
          update_order_status(order.id, uid, "delivered")
          => /\ (order.customer_id = uid /\ \E u \in users : u.id = uid)
                => response'.code = 403 /\ order \in orders'
             /\ (order.supplier_id = uid /\ order.status # "placed")
                => response'.code = 400 /\ order \in orders']_vars

\* the order's supplier has just been refused the delivery of an order that
\* is confirmed, not placed
C16_Witness ==
    /\ response = Resp(400, "Order status cannot be marked as delivered.")
    /\ \E order \in orders : order.status = "confirmed"

\* C17: make_offer creates no offer and answers 404 when the request does
\* not exist or is not open, 404 when the supplier does not exist, and 403
\* when no product of the supplier has the request's category; so it never
\* creates an offer on a request that is already accepted.
C17_CreateOfferRefused ==
    [][\A rid \in RequestIds, sid \in SupplierIds, proposed \in ProposedPrices :
          make_offer(rid, sid, proposed)
          => LET open == {r \in requests : r.id = rid /\ r.status = "open"}
                 supplier == {u \in users : u.id = sid}
                 carries == \E r \in open : \E p \in products :
                               p.supplier_id = sid /\ p.category = r.category
             IN /\ open = {}
                    => response' = Resp(404, "Request not found or not open")
                /\ (open # {} /\ supplier = {})
                    => response' = Resp(404, "Supplier not found")
                /\ (open # {} /\ supplier # {} /\ ~carries) => response'.code = 403
                /\ (open = {} \/ supplier = {} \/ ~carries) => offers' = offers
                /\ (\E r \in requests : r.id = rid /\ r.status = "accepted")
                    => offers' = offers]_vars

\* make_offer has just been refused for a supplier that carries no product
\* of the category of an open request
C17_Witness ==
    /\ response = Resp(403, "You don't carry that category or product for this request.")
    /\ \E r \in requests, u \in users :
          /\ r.status = "open"
          /\ u.role = "supplier"
          /\ \A p \in products : p.supplier_id = u.id => p.category # r.category

\* C18: a successful make_offer inserts exactly one offer, with status
\* pending and the given request, supplier and proposed price, and leaves
\* the request's status, the existing offers and the orders unchanged.
C18_CreateOfferEffects ==
    [][\A rid \in RequestIds, sid \in SupplierIds, proposed \in ProposedPrices :
          (/\ response' = Resp(200, "OfferRead")
           /\ make_offer(rid, sid, proposed))
          => \E new \in offers' :
                /\ new \notin offers
                /\ \A o \in offers : o.id # new.id
                /\ offers' = offers \cup {new}
                /\ new.status = "pending"
                /\ new.request_id = rid
                /\ new.supplier_id = sid
                /\ new.proposed = proposed
                /\ requests' = requests
                /\ orders' = orders]_vars

\* make_offer has just inserted a pending offer beside an older offer, at a
\* price that is not the request's
C18_Witness ==
    /\ response = Resp(200, "OfferRead")
    /\ \E new \in offers, old \in offers, r \in requests :
          /\ old.id < new.id
          /\ new.status = "pending"
          /\ r.id = new.request_id
          /\ new.proposed # r.offer_price

\* C19: a successful accept_request (resp. reject_request) inserts exactly
\* one offer for the given request and supplier whose status is already
\* accepted (resp. rejected), and leaves the status of the parent request
\* and of every other offer unchanged.
C19_AdminShortcutEffects ==
    [][\A rid \in RequestIds, sid \in SupplierIds :
          /\ (/\ response' = Resp(200, "Offer accepted successfully")
              /\ accept_request(rid, sid))
             => \E new \in offers' :
                   /\ new \notin offers
                   /\ offers' = offers \cup {new}
                   /\ new.request_id = rid
                   /\ new.supplier_id = sid
                   /\ new.status = "accepted"
                   /\ requests' = requests
          /\ (/\ response' = Resp(200, "Offer rejected successfully")
              /\ reject_request(rid, sid))
             => \E new \in offers' :
                   /\ new \notin offers
                   /\ offers' = offers \cup {new}
                   /\ new.request_id = rid
                   /\ new.supplier_id = sid
                   /\ new.status = "rejected"
                   /\ requests' = requests]_vars

\* accept_request has just inserted an accepted offer on a request that is
\* still open and has a pending offer of another supplier
C19_Witness ==
    /\ response = Resp(200, "Offer accepted successfully")
    /\ \E new \in offers, old \in offers, r \in requests :
          /\ old.id < new.id
          /\ new.status = "accepted"
          /\ old.status = "pending"
          /\ old.request_id = new.request_id
          /\ r.id = new.request_id
          /\ r.status = "open"

\* C20: a successful respond_to_offer with action reject on a pending offer
\* sets that offer's status to rejected and changes nothing else: the parent
\* request and the other offers of the request keep their status.
C20_RejectEffects ==
    [][\A id \in OfferIds :
          (/\ response' = Resp(200, "Offer rejected")
           /\ respond_to_offer(id, "reject"))
          => \E offer \in offers :
                /\ offer.id = id
                /\ offer.status = "pending"
                /\ offers' = (offers \ {offer})
                                \cup {[offer EXCEPT !.status = "rejected"]}
                /\ requests' = requests
                /\ orders' = orders]_vars

\* a reject has just succeeded on an offer of a request that is still open
\* and has another offer still pending
C20_Witness ==
    /\ response = Resp(200, "Offer rejected")
    /\ \E o1 \in offers, o2 \in offers, r \in requests :
          /\ o1.request_id = o2.request_id
          /\ o1.status = "rejected"
          /\ o2.status = "pending"
          /\ r.id = o1.request_id
          /\ r.status = "open"

C23_OrdersNeverRemoved ==
    [][\A o \in orders : \E n \in orders' : n.id = o.id]_vars

\* the store has just refused a deletion that would have left an order
\* without a row it refers to
C23_Witness ==
    /\ response = Resp(500, "Internal Server Error")
    /\ ~nativeEnum
    /\ orders # {}

\* C24: deleting a request deletes all of its offers, so every offer refers
\* to a request that exists: delete_request on a request no order refers to
\* succeeds, removes the request and exactly its offers, and after every
\* step of every handler each offer's request is in the table.
C24_OffersFollowRequest ==
    [][/\ \A o \in offers' : \E r \in requests' : r.id = o.request_id
       /\ \A r \in requests :
             \/ ~delete_request(r.id)
             \/ IF \E o \in orders : o.request_id = r.id
                THEN response'.code = 500 /\ offers' = offers
                ELSE /\ response'.code = 200
                     /\ requests' = requests \ {r}
                     /\ offers' = {o \in offers : o.request_id # r.id}]_vars

\* a request that had offers has just been deleted and its offers are gone
\* with it (no user was deleted, and no other request)
C24_Witness ==
    /\ response = Resp(200, "Request deleted successfully")
    /\ Cardinality(requests) = Cardinality(RequestIds) - 1
    /\ Cardinality(users) = Cardinality(UserIds)
    /\ nextOffer > 1
    /\ offers = {}

\* C22: a request's status is open or accepted in every reachable state; a
\* request becomes accepted only in a successful respond_to_offer accept of
\* one of its pending offers; and a request that is accepted stays accepted
\* for as long as it exists, update_request included.
C22_RequestStatus ==
    [][\A r \in requests' :
          /\ r.status \in {"open", "accepted"}
          /\ \A q \in requests :
                q.id = r.id =>
                   \/ r.status = q.status
                   \/ /\ q.status = "open"
                      /\ r.status = "accepted"
                      /\ response' = Resp(200, "Offer accepted")
                      /\ \E f \in offers :
                            /\ f.request_id = q.id
                            /\ f.status = "pending"
                            /\ respond_to_offer(f.id, "accept")]_vars

\* update_request has just rewritten the category of a request that is
\* accepted, and the request is still accepted
C22_Witness ==
    /\ response = Resp(200, "RequestBase")
    /\ \E r \in requests :
          /\ r.id = "r1"
          /\ r.category = "furniture"
          /\ r.status = "accepted"

\* C25: get_all_active_orders_for_user(u) returns exactly the orders whose
\* status is placed and whose customer or supplier is u.
C25_ActiveOrders ==
    [][\A u \in ReadUserIds :
          get_all_active_orders_for_user(u)
          => /\ response'.code = 200
             /\ result' \subseteq orders
             /\ \A o \in orders :
                   o \in result' <=> /\ o.status = "placed"
                                     /\ u \in {o.customer_id, o.supplier_id}]_vars

\* the active orders of a supplier have just been listed: a placed order it
\* supplies is in the list, another order of the same customer is not
C25_Witness ==
    /\ response = Resp(200, "List[OrderOut]")
    /\ \E o1 \in result, o2 \in orders \ result :
          /\ o1.status = "placed"
          /\ o2.status = "placed"
          /\ o2.customer_id = o1.customer_id
          /\ o2.supplier_id # o1.supplier_id

\* C26: get_all_completed_orders(u) returns exactly the orders whose status
\* is delivered and whose customer is u; an order u only supplies and a
\* cancelled order are not returned.
C26_OrderHistory ==
    [][\A u \in ReadUserIds :
          get_all_completed_orders(u)
          => /\ response'.code = 200
             /\ result' \subseteq orders
             /\ \A o \in orders :
                   o \in result' <=> o.status = "delivered" /\ o.customer_id = u]_vars

\* the history of a customer has just been listed: a delivered order is in
\* the list and a cancelled order of the same customer is not
C26_Witness ==
    /\ response = Resp(200, "List[OrderOut]")
    /\ \E o1 \in result, o2 \in orders \ result :
          /\ o1.status = "delivered"
          /\ o2.status = "cancelled"
          /\ o2.customer_id = o1.customer_id

\* C27: get_matching_supplier_requests(s) returns exactly the requests
\* whose category is one of the categories of s's products, whatever their
\* status, and answers 400 with no request when s has no product or no
\* product with a category (404 when s is no user).
C27_MatchingRequests ==
    [][\A s \in ReadUserIds :
          get_matching_supplier_requests(s)
          => LET mine == {p \in products : p.supplier_id = s}
                 cats == {p.category : p \in mine} \ {""}
             IN  IF \A u \in users : u.id # s
                 THEN response'.code = 404 /\ result' = {}
                 ELSE IF cats = {}
                 THEN response'.code = 400 /\ result' = {}
                 ELSE /\ response'.code = 200
                      /\ result' \subseteq requests
                      /\ \A r \in requests :
                            r \in result' <=> r.category \in cats]_vars

\* the requests matching a supplier have just been listed: an accepted
\* request of its category is in the list, a request of another category
\* is not
C27_Witness ==
    /\ response = Resp(200, "List[RequestResponse]")
    /\ \E r1 \in result, r2 \in requests \ result :
          /\ r1.status = "accepted"
          /\ r2.category # r1.category

\* C28: with make_offer on a request running beside respond_to_offer accept
\* on another offer of that request, no committed state has a request that
\* is accepted and has a pending offer.  (Stated as claimed, for requests
\* whose offers come from different suppliers.)
C28_NoPendingOnAcceptedRequest ==
    \A r \in requests :
       (/\ r.status = "accepted"
        /\ \A o1 \in OffersOfRequest(r.id), o2 \in OffersOfRequest(r.id) :
              o1.supplier_id = o2.supplier_id => o1 = o2)
       => PendingOffers(r.id) = {}

\* C30: create_request leaves no request row without its stored image and
\* no stored image without its request row: after every call, every
\* request's image is in the object store and every object in the store is
\* the image of a request.  (Stated as claimed.)
C30_NoRowWithoutImageNoOrphan ==
    /\ \A r \in requests : r.image_path \in blobs
    /\ \A key \in blobs : \E r \in requests : r.image_path = key

====
